---- MODULE Spec2Model ----
(***************************************************************************)
(* Model of eole's fuzzymatch transform (src/eole/transforms/fuzzymatch.py) *)
(*                                                                         *)
(*   FuzzyMatcher.__init__ / _create_tm   loading the translation memory   *)
(*   FuzzyMatcher._get_batch_matches      chunked, quota-bounded matching  *)
(*   FuzzyMatchTransform.batch_apply      the pipeline-facing entry point  *)
(*                                                                         *)
(* Python strings are sequences of one-character strings, so that split,   *)
(* strip, join, `in` and the similarity ratio are computed, not assumed.   *)
(* Two specifications:                                                     *)
(*   SpecTM  the constructor run on TM files, well-formed or not;          *)
(*   Spec    a warmed-up transform (its TM loaded by the same _create_tm)  *)
(*           taking one batch through batch_apply, chunk by chunk.         *)
(***************************************************************************)
EXTENDS Integers, Sequences, FiniteSets

VARIABLES
    tm_lines,      \* file.readlines() of the TM file at tm_path
    internal_tm,   \* self.internal_tm: <<src_segments, tgt_segments>>, <<>> while unset
    threshold,     \* self.threshold
    corpus_ratio,  \* self.corpus_ratio, as the numerator of corpus_ratio / RatioDen
    pc,            \* where the program is
    batch_in,      \* the src token lists of the examples as batch_apply received them
    examples,      \* the src token lists of the examples (batch_apply mutates them)
    batch,         \* src_segments, the argument of _get_batch_matches
    mini_batches,  \* the chunks of np.array_split not yet visited
    fuzzy_count,   \* fuzzy_count
    augmented,     \* augmented
    scored         \* the sizes of the chunks handed to process.cdist so far

vars == <<tm_lines, internal_tm, threshold, corpus_ratio, pc, batch_in, examples,
          batch, mini_batches, fuzzy_count, augmented, scored>>

----------------------------------------------------------------------------
(* Bounds of the model and scaled-down configuration.                      *)

\* longest batch given to batch_apply
MaxLen == 5
\* most lines of a TM file in SpecTM
MaxLines == 3
\* corpus_ratio ranges over 0/RatioDen .. RatioDen/RatioDen
RatioDen == 2
\* chunk_size of _get_batch_matches (10000 in the source), scaled down so
\* that batches of several chunks are within reach
chunk_size == 2
\* fuzzymatch_min_length / fuzzymatch_max_length (4 and 70 by default), scaled down
fuzzymatch_min_length == 1
fuzzymatch_max_length == 4

fuzzy_token == <<"F">>
tm_delimiter == <<"\t">>
Thresholds == {0, 80}

----------------------------------------------------------------------------
(* Python string primitives.                                               *)

\* t in s
Contains(s, t) ==
    \E i \in 0..(Len(s) - Len(t)) : SubSeq(s, i + 1, i + Len(t)) = t

\* s.find(t) + 1, or 0 when t does not occur in s
FirstOccurrence(s, t) ==
    IF Contains(s, t)
    THEN CHOOSE i \in 1..(Len(s) - Len(t) + 1) :
            /\ SubSeq(s, i, i + Len(t) - 1) = t
            /\ \A j \in 1..(i - 1) : SubSeq(s, j, j + Len(t) - 1) # t
    ELSE 0

\* s.split(d): split at every occurrence of d
RECURSIVE StrSplit(_, _)
StrSplit(s, d) ==
    LET i == FirstOccurrence(s, d) IN
    IF i = 0 THEN <<s>>
    ELSE <<SubSeq(s, 1, i - 1)>> \o StrSplit(SubSeq(s, i + Len(d), Len(s)), d)

\* sep.join(parts)
RECURSIVE StrJoin(_, _)
StrJoin(parts, sep) ==
    IF Len(parts) = 0 THEN <<>>
    ELSE IF Len(parts) = 1 THEN parts[1]
    ELSE parts[1] \o sep \o StrJoin(Tail(parts), sep)

IsSpace(c) == c \in {" ", "\t", "\n"}

\* s.strip()
RECURSIVE StrStrip(_)
StrStrip(s) ==
    IF Len(s) = 0 THEN s
    ELSE IF IsSpace(s[1]) THEN StrStrip(Tail(s))
    ELSE IF IsSpace(s[Len(s)]) THEN StrStrip(SubSeq(s, 1, Len(s) - 1))
    ELSE s

----------------------------------------------------------------------------
(* FuzzyMatcher._create_tm                                                 *)

\* pair.split(self.tm_delimiter) split at the first delimiter only (maxsplit=1)
SplitPairFirst(pair) ==
    LET i == FirstOccurrence(pair, tm_delimiter) IN
    IF i = 0 THEN <<pair>>
    ELSE <<SubSeq(pair, 1, i - 1), SubSeq(pair, i + Len(tm_delimiter), Len(pair))>>

\* pair.split(self.tm_delimiter)
SplitPair(pair) == StrSplit(pair, tm_delimiter)

\* first and last field taken by index, whatever the number of fields
UnpackByIndex(parts) ==
    [ok |-> TRUE, source |-> parts[1],
     target |-> IF Len(parts) >= 2 THEN parts[Len(parts)] ELSE <<>>]

\* source, target = map(str, parts): a ValueError unless there are exactly two
Unpack(parts) ==
    IF Len(parts) = 2
    THEN [ok |-> TRUE, source |-> parts[1], target |-> parts[2]]
    ELSE [ok |-> FALSE, source |-> <<>>, target |-> <<>>]

\* len(source) < self.tm_unit_min_length or len(source) > self.tm_unit_max_length
TMUnitFiltered(source) ==
    Len(source) < fuzzymatch_min_length \/ Len(source) > fuzzymatch_max_length

\* the for loop of _create_tm from line k on, src/tgt the segments so far
RECURSIVE LoadPairs(_, _, _, _)
LoadPairs(pairs, k, src, tgt) ==
    IF k > Len(pairs) THEN [raised |-> FALSE, tm |-> <<src, tgt>>]
    ELSE LET u == Unpack(SplitPair(pairs[k])) IN
         IF ~u.ok THEN [raised |-> TRUE, tm |-> <<>>]
         ELSE IF TMUnitFiltered(u.source) THEN LoadPairs(pairs, k + 1, src, tgt)
         ELSE LoadPairs(pairs, k + 1,
                        Append(src, StrStrip(u.source)),
                        Append(tgt, StrStrip(u.target)))

create_tm(pairs) == LoadPairs(pairs, 1, <<>>, <<>>)

----------------------------------------------------------------------------
(* TM files.                                                               *)

L_ab    == <<"a", "b", "\t", "x", "\n">>
L_abc   == <<"a", "b", "c", "\t", "y", "\n">>
L_blankSrc == <<" ", "\t", "z", "\n">>
L_long  == <<"a", "b", "c", "a", "b", "c", "\t", "z", "\n">>
L_two   == <<"a", "b", "\t", "x", "\t", "y", "\n">>
L_empty == <<"\n">>
L_longNoDelim == <<"a", "b", "c", "a", "b", "c", " ", "z", "\n">>

WellFormedLines == {L_ab, L_abc, L_blankSrc, L_long}
AllLines == WellFormedLines \cup {L_two, L_empty, L_longNoDelim}

SeqsUpTo(S, n) == UNION {[1..k -> S] : k \in 0..n}

\* the TM files a warmed-up transform of Spec was built from
TMFiles == { <<>>, <<L_ab, L_long, L_abc>>, <<L_blankSrc, L_abc>> }

Idle ==
    /\ batch_in = <<>>
    /\ examples = <<>>
    /\ batch = <<>>
    /\ mini_batches = <<>>
    /\ fuzzy_count = 0
    /\ augmented = <<>>
    /\ scored = <<>>

\* a FuzzyMatcher about to be constructed on a TM file, with a configured
\* threshold and ratio
InitTM ==
    /\ tm_lines \in SeqsUpTo(AllLines, MaxLines)
    /\ internal_tm = <<>>
    /\ threshold = 80
    /\ corpus_ratio = 1
    /\ pc = "new"
    /\ Idle

\* FuzzyMatcher.__init__ when _create_tm returns
Construct ==
    /\ pc = "new"
    /\ ~create_tm(tm_lines).raised
    /\ internal_tm' = create_tm(tm_lines).tm
    /\ pc' = "constructed"
    /\ UNCHANGED <<tm_lines, threshold, corpus_ratio, batch_in, examples, batch,
                   mini_batches, fuzzy_count, augmented, scored>>

\* FuzzyMatcher.__init__ when _create_tm raises: self.internal_tm is never assigned
ConstructRaises ==
    /\ pc = "new"
    /\ create_tm(tm_lines).raised
    /\ pc' = "ctor_raised"
    /\ UNCHANGED <<tm_lines, internal_tm, threshold, corpus_ratio, batch_in, examples,
                   batch, mini_batches, fuzzy_count, augmented, scored>>

NextTM == Construct \/ ConstructRaises

SpecTM == InitTM /\ [][NextTM]_vars

----------------------------------------------------------------------------
(* Claims about _create_tm, checked under SpecTM.                          *)

DelimiterCount(line) ==
    Cardinality({i \in 1..Len(line) :
                    SubSeq(line, i, i + Len(tm_delimiter) - 1) = tm_delimiter})

TextBeforeFirst(line) == SubSeq(line, 1, FirstOccurrence(line, tm_delimiter) - 1)
TextAfterFirst(line) ==
    SubSeq(line, FirstOccurrence(line, tm_delimiter) + Len(tm_delimiter), Len(line))

\* the TM of a file whose lines are split at their first delimiter
FirstSplitTM(lines) ==
    LET kept == SelectSeq(lines, LAMBDA l : ~TMUnitFiltered(TextBeforeFirst(l))) IN
    << [k \in 1..Len(kept) |-> StrStrip(TextBeforeFirst(kept[k]))],
       [k \in 1..Len(kept) |-> StrStrip(TextAfterFirst(kept[k]))] >>

\* C6: a TM file with a line that does not contain the delimiter, at any
\* position, makes the constructor raise and leaves internal_tm unset; the
\* line is never skipped.
FormatErrorIsFatal ==
    (pc # "new" /\ \E k \in 1..Len(tm_lines) : DelimiterCount(tm_lines[k]) = 0)
        => (pc = "ctor_raised" /\ internal_tm = <<>>)

\* C6 witness: the constructor raised on a file whose first line is well formed
\* and retained, and whose later line has no delimiter and an over-long source.
FormatErrorWitness ==
    /\ pc = "ctor_raised"
    /\ Len(tm_lines) >= 2
    /\ tm_lines[1] = L_ab
    /\ tm_lines[Len(tm_lines)] = L_longNoDelim
    /\ \A k \in 1..Len(tm_lines) : DelimiterCount(tm_lines[k]) <= 1

\* C7 as stated: every line is split at its first delimiter, so a file whose
\* lines all contain the delimiter (once or several times) loads, each source
\* the text before the first delimiter and each target all the text after it.
SplitOnFirstDelimiter ==
    (pc # "new" /\ \A k \in 1..Len(tm_lines) : DelimiterCount(tm_lines[k]) >= 1)
        => (pc = "constructed" /\ internal_tm = FirstSplitTM(tm_lines))

\* C7 amended: a file whose lines all contain the delimiter exactly once loads,
\* source the text before it and target the text after it; a line in which the
\* delimiter occurs two or more times makes the constructor raise, and no TM
\* is stored.
SplitExactlyOneDelimiter ==
    pc # "new" =>
        /\ (\A k \in 1..Len(tm_lines) : DelimiterCount(tm_lines[k]) = 1)
              => (pc = "constructed" /\ internal_tm = FirstSplitTM(tm_lines))
        /\ (\E k \in 1..Len(tm_lines) : DelimiterCount(tm_lines[k]) >= 2)
              => (pc = "ctor_raised" /\ internal_tm = <<>>)

\* C7 witness: the constructor raised on a file all of whose lines contain the
\* delimiter, one of them twice.
SplitTwoDelimitersWitness ==
    /\ pc = "ctor_raised"
    /\ \A k \in 1..Len(tm_lines) : DelimiterCount(tm_lines[k]) >= 1
    /\ \E k \in 1..Len(tm_lines) : tm_lines[k] = L_two

----------------------------------------------------------------------------
(* The scorer: rapidfuzz process.cdist with scorer=fuzz.ratio.             *)

Max(a, b) == IF a >= b THEN a ELSE b
Min(a, b) == IF a <= b THEN a ELSE b

\* length of a longest common subsequence
RECURSIVE LCS(_, _)
LCS(a, b) ==
    IF Len(a) = 0 \/ Len(b) = 0 THEN 0
    ELSE IF a[Len(a)] = b[Len(b)]
         THEN 1 + LCS(SubSeq(a, 1, Len(a) - 1), SubSeq(b, 1, Len(b) - 1))
         ELSE Max(LCS(SubSeq(a, 1, Len(a) - 1), b), LCS(a, SubSeq(b, 1, Len(b) - 1)))

\* one cell of the uint8 score matrix: fuzz.ratio is the normalised Indel
\* similarity 100 * 2*LCS / (len1 + len2), 100 for two empty strings; a score
\* below score_cutoff is stored as 0, any other is rounded to an integer.
ScoreCell(query, choice, cutoff) ==
    LET n == Len(query) + Len(choice)
        l == LCS(query, choice)
    IN  IF n = 0 THEN 100
        ELSE IF 200 * l < cutoff * n THEN 0
        ELSE (400 * l + n) \div (2 * n)

\* process.cdist(plist, self.internal_tm[0], scorer=fuzz.ratio, dtype=np.uint8,
\*               score_cutoff=self.threshold)
cdist(queries, choices, cutoff) ==
    [i \in 1..Len(queries) |->
        [j \in 1..Len(choices) |-> ScoreCell(queries[i], choices[j], cutoff)]]

\* np.any(results, 1)[idx]: some cell of the row is not zero
RowAny(row) == \E j \in 1..Len(row) : row[j] # 0

\* np.argmax(results, axis=1)[idx]: the first index of the row's maximum
RowArgmax(row) ==
    CHOOSE j \in 1..Len(row) :
        /\ \A k \in 1..Len(row) : row[k] <= row[j]
        /\ \A k \in 1..(j - 1) : row[k] < row[j]

----------------------------------------------------------------------------
(* FuzzyMatcher._get_batch_matches                                         *)

\* len(batch) // chunk_size if len(batch) > chunk_size else 1
NumSections(n) == IF n > chunk_size THEN n \div chunk_size ELSE 1

\* array_split that gives every section len // n items and drops the rest
ArraySplitEven(ary, n) ==
    LET q == Len(ary) \div n IN
    [k \in 1..n |-> SubSeq(ary, (k - 1) * q + 1, k * q)]

\* np.array_split(ary, n): n consecutive sections, the first len % n of them
\* with len // n + 1 items and the others with len // n
ArraySplit(ary, n) ==
    LET q == Len(ary) \div n
        r == Len(ary) % n
        first(k) == (k - 1) * q + Min(k - 1, r)
        size(k) == q + (IF k <= r THEN 1 ELSE 0)
    IN  [k \in 1..n |-> SubSeq(ary, first(k) + 1, first(k) + size(k))]

\* fuzzy_count > len(batch) * self.corpus_ratio
QuotaReachedStrict(count, n) == count * RatioDen > n * corpus_ratio

\* fuzzy_count >= len(batch) * self.corpus_ratio, the ratio being
\* corpus_ratio / RatioDen
QuotaReached(count, n) == count * RatioDen >= n * corpus_ratio

\* s.startswith(self.fuzzy_token)
HasTokenAtStart(s) ==
    Len(s) >= Len(fuzzy_token) /\ SubSeq(s, 1, Len(fuzzy_token)) = fuzzy_token

\* self.fuzzy_token in s
HasToken(s) == Contains(s, fuzzy_token)

\* matches[idx] alone
IsFuzzyWithExact(row) == RowAny(row)

\* results[idx][argmax[idx]] < 100 alone
IsFuzzyWithoutMatch(row) == row[RowArgmax(row)] < 100

\* matches[idx] and results[idx][argmax[idx]] < 100
IsFuzzy(row) == RowAny(row) /\ row[RowArgmax(row)] < 100

\* s + self.fuzzy_token + self.internal_tm[1][argmax[idx]]
Fuzzied(s, row) == s \o fuzzy_token \o internal_tm[2][RowArgmax(row)]

\* for idx, s in enumerate(plist), from item idx on: count is fuzzy_count and
\* total is len(batch)
RECURSIVE ItemLoop(_, _, _, _, _)
ItemLoop(plist, results, idx, count, total) ==
    IF idx > Len(plist) THEN [plist |-> plist, count |-> count]
    ELSE IF HasToken(plist[idx]) THEN ItemLoop(plist, results, idx + 1, count, total)
    ELSE IF IsFuzzy(results[idx])
         THEN IF QuotaReached(count, total)
              THEN [plist |-> plist, count |-> count]
              ELSE ItemLoop([plist EXCEPT ![idx] = Fuzzied(plist[idx], results[idx])],
                            results, idx + 1, count + 1, total)
    ELSE ItemLoop(plist, results, idx + 1, count, total)

\* the loop over a chunk with a fuzzy_count of its own, added to the running one
ChunkLoopOwnCount(plist, results, count, total) ==
    LET r == ItemLoop(plist, results, 1, 0, total) IN
    [plist |-> r.plist, count |-> count + r.count]

\* the loop over one scored chunk, fuzzy_count carried in and out
ChunkLoop(plist, results, count, total) == ItemLoop(plist, results, 1, count, total)

----------------------------------------------------------------------------
(* FuzzyMatchTransform.batch_apply                                         *)

Space == <<" ">>

\* len(joined) >= min_length and len(joined) <= max_length
LengthOKInclusive(joined) ==
    Len(joined) >= fuzzymatch_min_length /\ Len(joined) <= fuzzymatch_max_length

\* len(" ".join(ex["src"])) > self.fuzzymatch_min_length
\*   and len(" ".join(ex["src"])) < self.fuzzymatch_max_length
LengthOK(joined) ==
    Len(joined) > fuzzymatch_min_length /\ Len(joined) < fuzzymatch_max_length

\* the src_segments built by the first loop of batch_apply
SrcSegments(exs) ==
    [i \in 1..Len(exs) |->
        LET joined == StrJoin(exs[i], Space) IN
        IF LengthOK(joined) THEN joined ELSE <<>>]

\* example["src"] = fuzzied_src[idx].split(" ") for every example
WriteBackAll(exs, fuzzied_src) ==
    [i \in 1..Len(exs) |-> StrSplit(fuzzied_src[i], Space)]

\* if fuzzied_src[idx] != "": example["src"] = fuzzied_src[idx].split(" ")
WriteBack(exs, fuzzied_src) ==
    [i \in 1..Len(exs) |->
        IF fuzzied_src[i] # <<>> THEN StrSplit(fuzzied_src[i], Space) ELSE exs[i]]

----------------------------------------------------------------------------
(* Examples and the transform's state machine.                             *)

Ex_a_b == << <<"a">>, <<"b">> >>
Ex_abF == << <<"a", "b", "F">> >>
Ex_abc == << <<"a", "b", "c">> >>
Ex_a   == << <<"a">> >>
ExampleSet == {Ex_a_b, Ex_abF, Ex_abc, Ex_a}

\* a transform after warm_up on a well-formed TM file
Init ==
    /\ tm_lines \in TMFiles
    /\ internal_tm = create_tm(tm_lines).tm
    /\ threshold \in Thresholds
    /\ corpus_ratio \in 0..RatioDen
    /\ pc = "idle"
    /\ Idle

\* batch_apply up to its call of _get_batch_matches, and that call up to its loop
BatchApply ==
    /\ pc = "idle"
    /\ \E exs \in SeqsUpTo(ExampleSet, MaxLen) :
          /\ batch_in' = exs
          /\ examples' = exs
          /\ batch' = SrcSegments(exs)
          /\ mini_batches' = ArraySplit(SrcSegments(exs), NumSections(Len(exs)))
    /\ fuzzy_count' = 0
    /\ augmented' = <<>>
    /\ scored' = <<>>
    /\ pc' = "matching"
    /\ UNCHANGED <<tm_lines, internal_tm, threshold, corpus_ratio>>

\* one pass of the loop over mini_batches with the quota reached at its entry
SkipChunk ==
    /\ pc = "matching"
    /\ mini_batches # <<>>
    /\ QuotaReached(fuzzy_count, Len(batch))
    /\ augmented' = augmented \o Head(mini_batches)
    /\ mini_batches' = Tail(mini_batches)
    /\ UNCHANGED <<tm_lines, internal_tm, threshold, corpus_ratio, pc, batch_in,
                   examples, batch, fuzzy_count, scored>>

\* one pass of the loop over mini_batches that scores the chunk
ScoreChunk ==
    /\ pc = "matching"
    /\ mini_batches # <<>>
    /\ ~QuotaReached(fuzzy_count, Len(batch))
    /\ internal_tm[1] # <<>>
    /\ LET plist == Head(mini_batches)
           results == cdist(plist, internal_tm[1], threshold)
           r == ChunkLoop(plist, results, fuzzy_count, Len(batch))
       IN  /\ augmented' = augmented \o r.plist
           /\ fuzzy_count' = r.count
           /\ scored' = Append(scored, Len(plist))
    /\ mini_batches' = Tail(mini_batches)
    /\ UNCHANGED <<tm_lines, internal_tm, threshold, corpus_ratio, pc, batch_in,
                   examples, batch>>

\* the same pass with an empty TM: the score matrix has no columns and
\* np.argmax raises ValueError, which leaves _get_batch_matches and batch_apply
ScoreChunkRaises ==
    /\ pc = "matching"
    /\ mini_batches # <<>>
    /\ ~QuotaReached(fuzzy_count, Len(batch))
    /\ internal_tm[1] = <<>>
    /\ scored' = Append(scored, Len(Head(mini_batches)))
    /\ pc' = "raised"
    /\ UNCHANGED <<tm_lines, internal_tm, threshold, corpus_ratio, batch_in, examples,
                   batch, mini_batches, fuzzy_count, augmented>>

\* return augmented, and the rest of batch_apply: the assertion and the write-back
Return ==
    /\ pc = "matching"
    /\ mini_batches = <<>>
    /\ IF Len(batch) = Len(augmented)
       THEN /\ examples' = WriteBack(examples, augmented)
            /\ pc' = "done"
       ELSE /\ examples' = examples
            /\ pc' = "assert_failed"
    /\ UNCHANGED <<tm_lines, internal_tm, threshold, corpus_ratio, batch_in, batch,
                   mini_batches, fuzzy_count, augmented, scored>>

Next == BatchApply \/ SkipChunk \/ ScoreChunk \/ ScoreChunkRaises \/ Return

Spec == Init /\ [][Next]_vars

----------------------------------------------------------------------------
(* Claims about _get_batch_matches and batch_apply, checked under Spec.    *)
(* cap = len(batch) * ratio = Len(batch) * corpus_ratio / RatioDen, so a    *)
(* comparison with cap is written multiplied by RatioDen.                  *)

\* the positions whose output item differs from the input item
AugmentedSet == {i \in 1..Len(augmented) : augmented[i] # batch[i]}

CapTimesDen == Len(batch) * corpus_ratio
CapIsWhole == CapTimesDen % RatioDen = 0

SetMax(S) == CHOOSE m \in S : \A x \in S : x <= m

\* the best score of s against the TM, no cutoff applied
BestScore(s) ==
    SetMax({ScoreCell(s, internal_tm[1][j], 0) : j \in 1..Len(internal_tm[1])})

Marked(s) == Contains(s, fuzzy_token)

\* eligible as C5 words it
EligibleAsStated(s) ==
    /\ ~Marked(s)
    /\ internal_tm[1] # <<>>
    /\ LET best == BestScore(s) IN best >= threshold /\ best < 100

\* eligible with a score of 0 never a match
Eligible(s) ==
    /\ ~Marked(s)
    /\ internal_tm[1] # <<>>
    /\ LET best == BestScore(s) IN best >= threshold /\ best > 0 /\ best < 100

\* the augmented positions are the first ones of E, and as many as cap when
\* cap is whole and E has that many
FirstOnesOf(E) ==
    LET A == AugmentedSet IN
    /\ A \subseteq E
    /\ \A i \in A : \A k \in E : k < i => k \in A
    /\ (CapIsWhole /\ Cardinality(E) * RatioDen >= CapTimesDen)
          => Cardinality(A) * RatioDen = CapTimesDen

\* C1 as stated: the number of items augmented in one call never exceeds
\* cap = len(batch) * ratio, whole or not.
QuotaNeverExceedsCap ==
    pc \in {"matching", "done"}
        => Cardinality(AugmentedSet) * RatioDen <= CapTimesDen

\* C1 amended: the number of items augmented in one call stays strictly below
\* cap + 1, so it never exceeds cap rounded up to a whole number, and never
\* exceeds cap when cap is whole.
QuotaBelowCapPlusOne ==
    pc \in {"matching", "done"}
        => Cardinality(AugmentedSet) * RatioDen < CapTimesDen + RatioDen

\* C1 witness: a call returned with a cap that is not whole and more items
\* augmented than cap.
QuotaWitness ==
    /\ pc = "done"
    /\ ~CapIsWhole
    /\ Cardinality(AugmentedSet) * RatioDen > CapTimesDen
    /\ Cardinality(AugmentedSet) >= 2

\* C2: the result has len(batch) items, each either the input item at that
\* position or that item followed by the fuzzy token and one TM target; the
\* assertion of batch_apply never fails.
LengthPositionPreserved ==
    /\ pc # "assert_failed"
    /\ pc = "done" =>
          /\ Len(augmented) = Len(batch)
          /\ \A i \in 1..Len(batch) :
                \/ augmented[i] = batch[i]
                \/ \E j \in 1..Len(internal_tm[2]) :
                      augmented[i] = batch[i] \o fuzzy_token \o internal_tm[2][j]

\* C2 witness: a call returned on a batch of several chunks, two of them
\* scored, with an augmented item in the last position and an unchanged one.
LengthPositionWitness ==
    /\ pc = "done"
    /\ Len(scored) >= 2
    /\ Len(batch) \in AugmentedSet
    /\ \E i \in 1..Len(batch) : i \notin AugmentedSet

\* C3: an input item that contains the fuzzy token is returned unchanged and
\* is not counted in fuzzy_count; items after it are still considered, so that
\* with the quota not reached every later eligible item is augmented.
MarkerIdempotent ==
    pc = "done" =>
        /\ fuzzy_count = Cardinality(AugmentedSet)
        /\ \A i \in 1..Len(batch) : Marked(batch[i]) =>
              /\ augmented[i] = batch[i]
              /\ \A k \in (i + 1)..Len(batch) :
                    (fuzzy_count * RatioDen < CapTimesDen /\ Eligible(batch[k]))
                        => augmented[k] # batch[k]

\* C3 witness: a single-chunk call returned in which a marked item that scores
\* within [threshold, 100) was left alone and a later item was augmented.
MarkerWitness ==
    /\ pc = "done"
    /\ scored = <<Len(batch)>>
    /\ \E i \in 1..Len(batch) :
          /\ Marked(batch[i])
          /\ BestScore(batch[i]) >= threshold
          /\ BestScore(batch[i]) \in 1..99
          /\ \E k \in (i + 1)..Len(batch) : k \in AugmentedSet

\* C4: an item whose best score is 100 is returned unchanged, and no item is
\* augmented with the target of a TM entry that scores 100 for it.
ExactMatchExcluded ==
    pc = "done" =>
        \A i \in 1..Len(batch) :
            /\ (augmented[i] # batch[i] /\ internal_tm[1] # <<>>)
                  => BestScore(batch[i]) # 100
            /\ \A j \in 1..Len(internal_tm[1]) :
                  augmented[i] = batch[i] \o fuzzy_token \o internal_tm[2][j]
                      => ScoreCell(batch[i], internal_tm[1][j], 0) # 100

\* C4 witness: a call returned, quota not reached, with an unchanged item that
\* has one TM entry at 100 and another within [threshold, 100), next to an
\* augmented item.
ExactMatchWitness ==
    /\ pc = "done"
    /\ fuzzy_count * RatioDen < CapTimesDen
    /\ AugmentedSet # {}
    /\ \E i \in 1..Len(batch) :
          /\ ~Marked(batch[i])
          /\ BestScore(batch[i]) = 100
          /\ augmented[i] = batch[i]
          /\ \E j \in 1..Len(internal_tm[1]) :
                LET sc == ScoreCell(batch[i], internal_tm[1][j], 0) IN
                sc >= threshold /\ sc \in 1..99

\* C5 as stated: with an item eligible when it holds no fuzzy token and its
\* best score is at least the threshold and below 100, the augmented items are
\* exactly the first n eligible ones, n = cap when cap is whole and reachable.
FirstEligibleAsStated == pc = "done" =>
    LET E == {i \in 1..Len(batch) : EligibleAsStated(batch[i])} IN FirstOnesOf(E)

\* C5 amended: with an item eligible when it holds no fuzzy token and its best
\* score is at least the threshold, above 0 and below 100, the augmented items
\* are exactly the first n eligible ones, n = cap when cap is whole and at
\* least cap items are eligible.
FirstEligibleSelection == pc = "done" =>
    LET E == {i \in 1..Len(batch) : Eligible(batch[i])} IN FirstOnesOf(E)

\* C5 witness: a call on several chunks returned with a whole cap of at least
\* 1, more eligible items than cap, and an eligible item left unchanged.
FirstEligibleWitness ==
    /\ pc = "done"
    /\ Len(batch) > chunk_size
    /\ CapIsWhole
    /\ corpus_ratio > 0
    /\ Cardinality(AugmentedSet) * RatioDen = CapTimesDen
    /\ \E k \in 1..Len(batch) : Eligible(batch[k]) /\ k \notin AugmentedSet

Filtered(ex) ==
    LET n == Len(StrJoin(ex, Space)) IN
    ~(n > fuzzymatch_min_length /\ n < fuzzymatch_max_length)

IsPrefix(p, s) == Len(p) <= Len(s) /\ SubSeq(s, 1, Len(p)) = p

\* C8: an example whose joined source is not strictly between min_length and
\* max_length enters the matcher as the empty string, is never augmented and
\* keeps its src tokens; every output position holds the example of the same
\* input position.
FilteredPassThrough ==
    pc \in {"matching", "done", "raised"} =>
        /\ Len(examples) = Len(batch_in)
        /\ \A i \in 1..Len(batch_in) :
              /\ IsPrefix(StrJoin(batch_in[i], Space), StrJoin(examples[i], Space))
              /\ Filtered(batch_in[i]) =>
                    /\ batch[i] = <<>>
                    /\ examples[i] = batch_in[i]
                    /\ i <= Len(augmented) => augmented[i] = <<>>

\* C8 witness: batch_apply returned under threshold 0 and ratio 1 with a TM
\* that holds an empty source, a filtered example untouched and a later
\* example augmented.
FilteredWitness ==
    /\ pc = "done"
    /\ threshold = 0
    /\ corpus_ratio = RatioDen
    /\ \E j \in 1..Len(internal_tm[1]) : internal_tm[1][j] = <<>>
    /\ \E i \in 1..Len(batch_in) :
          /\ Filtered(batch_in[i])
          /\ batch_in[i] # <<>>
          /\ \E k \in (i + 1)..Len(batch_in) : examples[k] # batch_in[k]

\* the selection rule run over the whole batch as one chunk
WholeBatch(b) ==
    IF QuotaReached(0, Len(b)) THEN b
    ELSE ItemLoop(b, cdist(b, internal_tm[1], threshold), 1, 0, Len(b)).plist

\* C9: the output of the chunked run equals, item by item, the output of the
\* selection rule run over the whole batch as a single chunk; the chunked run
\* raises only where the single-chunk run would.
ChunkingSameAsWhole ==
    /\ pc = "done" => augmented = WholeBatch(batch)
    /\ pc = "raised" =>
          (internal_tm[1] = <<>> /\ batch # <<>> /\ ~QuotaReached(0, Len(batch)))

\* C9 witness: a call returned on a batch of several chunks, the first scored
\* and augmented in, a later one skipped at its entry.
ChunkingWitness ==
    /\ pc = "done"
    /\ NumSections(Len(batch)) >= 2
    /\ Len(scored) = 1
    /\ AugmentedSet # {}

\* C10: every chunk handed to the scorer holds at most chunk_size items.
ChunkSizeBound ==
    \A k \in 1..Len(scored) : scored[k] <= chunk_size

====
